---- MODULE Spec2Model ----
(***************************************************************************)
(* QueryStore: the REST back ends of the repository as one state machine   *)
(* over the credential store and the query store.  variant selects the     *)
(* back end: "express" is Express + Mongoose, "d1" is Hono + D1, "mongo"   *)
(* is Hono + MongoDB, whose handlers are the same over the MongoDB driver  *)
(* and over the Atlas Data API.  Every store                               *)
(* call a handler awaits is one atomic step; a handler that awaits two     *)
(* store calls (signup: findOne then insert, share: findOne then update)   *)
(* is two steps with the request parked in a slot in between.              *)
(*                                                                         *)
(* JavaScript strings that the code inspects (trim, toLowerCase, split,    *)
(* truthiness) are sequences of one-character strings: <<" ", "A">> is     *)
(* the string " A" and <<>> is the empty string.                           *)
(***************************************************************************)
EXTENDS Integers, Sequences, FiniteSets, TLC

\* ---------------------------------------------------------------- bounds
MaxUsers   == 2      \* user records the credential store may hold
MaxQueries == 2      \* query ids ever handed out
MaxReq     == 2      \* requests parked between two store calls
MaxTicks   == 1      \* clock advances, each by one token lifetime

\* ------------------------------------------------------ program constants
TokenTTL == 3600     \* exp: now + 60 * 60, expiresIn: '1h'

Variants == {"express", "d1", "mongo"}
CheckThenInsert == {"express", "mongo"}

\* ------------------------------------------------------------ JS strings
Truthy(s) == s # <<>>

RECURSIVE trimStart(_)
trimStart(s) == IF s # <<>> /\ Head(s) = " " THEN trimStart(Tail(s)) ELSE s

RECURSIVE trimEnd(_)
trimEnd(s) ==
    IF s # <<>> /\ s[Len(s)] = " " THEN trimEnd(SubSeq(s, 1, Len(s) - 1)) ELSE s

trim(s) == trimEnd(trimStart(s))

toLowerChar(c) == IF c = "A" THEN "a" ELSE IF c = "B" THEN "b" ELSE c

toLowerCase(s) == [i \in 1..Len(s) |-> toLowerChar(s[i])]

RECURSIVE filterTruthy(_)
filterTruthy(ts) ==
    IF ts = <<>> THEN <<>>
    ELSE IF Truthy(Head(ts)) THEN <<Head(ts)>> \o filterTruthy(Tail(ts))
    ELSE filterTruthy(Tail(ts))

\* tags.map(tag => tag.trim().toLowerCase()).filter(tag => tag)
mapTrimLower(ts) == [i \in 1..Len(ts) |-> toLowerCase(trim(ts[i]))]

processTags(ts) == filterTruthy(mapTrimLower(ts))

\* ---------------------------------------------------------- request inputs
NameA     == <<"a">>
NamePadA  == <<" ", "a">>
NameB     == <<"b">>
NameBlank == <<" ">>
Empty     == <<>>

Usernames == {NameA, NamePadA, NameB, NameBlank, Empty}
Passwords == {<<"p">>, <<"q">>, Empty}

NoTags == [present |-> FALSE, list |-> <<>>]
Tags(ts) == [present |-> TRUE, list |-> ts]

Bodies ==
    { [title |-> <<"t">>, text |-> <<"x">>, tags |-> Tags(<<<<" ", "A">>, <<"b">>>>)],
      [title |-> <<"u">>, text |-> <<"y">>, tags |-> NoTags],
      [title |-> Empty,   text |-> <<"x">>, tags |-> Tags(<<>>)] }

ShareIds == {"s1", "s2"}
NoShare  == "null"

\* ------------------------------------------------------------------ state
VARIABLES
    variant,    \* which back end this deployment runs
    users,      \* credential store: sequence of user records, id = position
    queries,    \* query store: id -> query record (documents / queries rows)
    query_tags, \* D1 only: rows of table query_tags, <<query_id, tag>>
    nextId,     \* next query id the store hands out
    now,        \* wall clock, seconds
    reqs,       \* slot -> request parked between its two store calls
    resp,       \* the response delivered by the last step, NoResp if none
    page,       \* the frontend's edit dialog and its save button
    conn        \* Hono + MongoDB: the module-level client and the getDb calls

vars == <<variant, users, queries, query_tags, nextId, now, reqs, resp, page, conn>>

\* ------------------------------------------------------ database helper
\* MongoClient objects one run constructs at most
MaxClients == 3

Clients == 1..MaxClients

\* the worker as loaded: `let client` unset, no MongoClient constructed, no
\* getDb call in progress. kind tells the two getDb bodies apart: "plain"
\* tests only !client, "reset" first closes a client whose topology is not
\* connected.
NoClient(kind) ==
    [kind |-> kind, client |-> 0, state |-> [c \in Clients |-> "none"], made |-> 0,
     pc |-> [s \in 1..MaxReq |-> "idle"], mine |-> [s \in 1..MaxReq |-> 0],
     last |-> [ev |-> "load", slot |-> 0, client |-> 0, state |-> "none", old |-> 0]]

\* ------------------------------------------------- frontend: edit dialog
\* setTimeout(..., 3000), in seconds
ConfirmDelay == 3

\* the page clock stops here
MaxClock == 5

\* the page as loaded: dialog closed, data-confirming unset, no timeout
\* pending. armed and armedAt record whether and when a click last put the
\* button into the confirming state without a reset since; last is the
\* event the page handled last.
PageLoaded ==
    [open |-> FALSE, confirming |-> FALSE, timers |-> {}, clock |-> 0,
     armed |-> FALSE, armedAt |-> 0,
     last |-> [ev |-> "load", put |-> FALSE, reset |-> FALSE]]

store == <<users, queries, query_tags, nextId>>

Slots == 1..MaxReq
QueryIds == 1..MaxQueries

NoResp == [op |-> "none", status |-> 0, msg |-> "", arg |-> <<>>, data |-> <<>>, calls |-> 0]

\* an answer given after the handler's first store call (or before any)
Reply(op, status, msg, arg, data) ==
    [op |-> op, status |-> status, msg |-> msg, arg |-> arg, data |-> data, calls |-> 1]

\* an answer given after the handler's second store call
AfterWrite(r) == [r EXCEPT !.calls = 2]

\* --------------------------------------------------------------- bcrypt
bcryptHash(password) == [bcrypt |-> password]

bcryptCompare(password, passwordHash) == passwordHash.bcrypt = password

\* ----------------------------------------------------------- JWT and auth
NoUser == [id |-> 0, username |-> Empty]

UserOf(us, i) == [id |-> i, username |-> us[i].username]

\* sign(payload, JWT_SECRET) with payload {user: {id, username}, exp}
sign(user, t) == [user |-> user, exp |-> t + TokenTTL, sig |-> "good"]

Forged(user, t) == [user |-> user, exp |-> t + TokenTTL, sig |-> "bad"]

Garbage == [user |-> NoUser, exp |-> 0, sig |-> "malformed"]

\* verify(token, JWT_SECRET): throws on a bad signature, a malformed token
\* or an expiry that is not in the future
verify(token, t) == token.sig = "good" /\ token.exp > t

NoHeader == [scheme |-> "none", token |-> Garbage]

Idle == [op |-> "idle", hdr |-> NoHeader, who |-> 0, qid |-> 0,
         username |-> Empty, password |-> Empty]

Denied(msg) == [ok |-> FALSE, user |-> NoUser, msg |-> msg]
Granted(user) == [ok |-> TRUE, user |-> user, msg |-> ""]

\* mutant: the payload is decoded but the token is never verified
getAuthPayload_Unverified(h, t) ==
    IF h.scheme = "none" THEN Denied("Unauthorized")
    ELSE Granted(h.token.user)

\* D1 back end: no header -> null; token = auth.split(' ')[1]; verify or null
getAuthPayload(h, t) ==
    IF h.scheme = "none" THEN Denied("Unauthorized")
    ELSE IF verify(h.token, t) THEN Granted(h.token.user)
    ELSE Denied("Unauthorized")

\* Hono + MongoDB back ends: header must start with 'Bearer '
authMiddleware(h, t) ==
    IF h.scheme # "Bearer" THEN Denied("No token, authorization denied")
    ELSE IF verify(h.token, t) THEN Granted(h.token.user)
    ELSE Denied("Token is not valid")

\* Express back end: require('./authMiddleware'), extract the bearer token,
\* verify it, on failure stop with Unauthorized
expressAuth(h, t) ==
    IF h.scheme # "Bearer" THEN Denied("Unauthorized")
    ELSE IF verify(h.token, t) THEN Granted(h.token.user)
    ELSE Denied("Unauthorized")

Authenticate(v, h, t) ==
    IF v = "d1" THEN getAuthPayload(h, t)
    ELSE IF v = "express" THEN expressAuth(h, t)
    ELSE authMiddleware(h, t)

\* the tokens login has handed out by time t: one per registered user and
\* per instant up to t (login only reads the users collection)
Instants(t) == {k * TokenTTL : k \in 0..MaxTicks} \cap 0..t

IssuedTokens(us, t) ==
    {sign(UserOf(us, i), t0) : i \in 1..Len(us), t0 \in Instants(t)}

Bearer(token) == [scheme |-> "Bearer", token |-> token]

\* headers a client may send: none, a token under another scheme, a string
\* that is no token, a token signed with another secret, a token login issued
Headers(us, t) ==
    {NoHeader, Bearer(Garbage)}
    \cup {Bearer(Forged(UserOf(us, i), t)) : i \in {1} \cap 1..Len(us)}
    \cup {[scheme |-> "Basic", token |-> sign(UserOf(us, i), t)] : i \in {1} \cap 1..Len(us)}
    \cup {Bearer(k) : k \in IssuedTokens(us, t)}

\* ------------------------------------------------------ credential store
\* userSchema: username has trim: true, applied to documents and filters
StoredName(v, username) == IF v = "express" THEN trim(username) ELSE username

Matching(v, us, username) ==
    {i \in 1..Len(us) : us[i].username = StoredName(v, username)}

\* findOne({ username }) / SELECT * FROM users WHERE username = ? .first()
findUser(v, us, username) ==
    IF Matching(v, us, username) = {} THEN 0
    ELSE CHOOSE i \in Matching(v, us, username) :
             \A j \in Matching(v, us, username) : i <= j

\* the storage layer's own uniqueness rule on username: schema.sql UNIQUE,
\* userSchema unique: true; the MongoDB driver and Data API back ends
\* create no index
UniqueUsername(v) == v \in {"express", "d1"}

NewUser(v, username, password) ==
    [username |-> StoredName(v, username), passwordHash |-> bcryptHash(password)]


\* INSERT INTO users / newUser.save() / users.insertOne(): the store's answer
insertUser(v, us, username, password) ==
    LET u == NewUser(v, username, password)
    IN  IF v = "express" /\ ~Truthy(u.username)
        THEN [ok |-> FALSE, error |-> "ValidationError", users |-> us]
        ELSE IF UniqueUsername(v) /\ \E i \in 1..Len(us) : us[i].username = u.username
        THEN [ok |-> FALSE, error |-> "UNIQUE constraint failed", users |-> us]
        ELSE [ok |-> TRUE, error |-> "", users |-> Append(us, u)]

\* signup up to its first store call in the back ends that look before they
\* insert; status 0 means the handler goes on to hash and insert
signupFind(v, us, username, password) ==
    IF ~Truthy(username) \/ ~Truthy(password)
    THEN [status |-> 400, msg |-> "Username and password are required."]
    ELSE IF findUser(v, us, username) # 0
    THEN [status |-> 409, msg |-> "Username already exists."]
    ELSE [status |-> 0, msg |-> ""]

\* what signup answers once the insert has returned or thrown
signupAnswer(v, r) ==
    IF r.ok THEN [status |-> 201, msg |-> "User created successfully."]
    ELSE IF v = "d1" /\ r.error = "UNIQUE constraint failed"
    THEN [status |-> 409, msg |-> "Username already exists."]
    ELSE [status |-> 500, msg |-> "An error occurred during signup."]

\* a request that has to wait for a second store call takes the first free slot
FreeSlot(s) == reqs[s] = Idle /\ \A r \in 1..(s - 1) : reqs[r] # Idle

AllIdle == \A s \in Slots : reqs[s] = Idle

Credentials(username, password) == [username |-> username, password |-> password]

ParkedSignups == {s \in Slots : reqs[s].op = "signup"}

\* POST /signup, D1: hash, INSERT, answer
SignupD1(username, password) ==
    /\ variant = "d1"
    /\ Len(users) < MaxUsers
    /\ LET r == insertUser(variant, users, username, password)
           a == signupAnswer(variant, r)
       IN  /\ users' = r.users
           /\ resp' = Reply("signup", a.status, a.msg, Credentials(username, password), <<>>)
    /\ UNCHANGED <<conn, page, variant, queries, query_tags, nextId, now, reqs>>

\* POST /signup, other back ends: validate, findOne, then park for the insert
SignupBegin(s, username, password) ==
    /\ variant \in CheckThenInsert
    /\ FreeSlot(s)
    /\ Len(users) + Cardinality(ParkedSignups) < MaxUsers
    /\ LET f == signupFind(variant, users, username, password)
       IN  IF f.status # 0
           THEN /\ resp' = Reply("signup", f.status, f.msg, Credentials(username, password), <<>>)
                /\ reqs' = reqs
           ELSE /\ resp' = NoResp
                /\ reqs' = [reqs EXCEPT ![s] =
                              [Idle EXCEPT !.op = "signup", !.username = username,
                                           !.password = password]]
    /\ UNCHANGED <<conn, page, variant, users, queries, query_tags, nextId, now>>

\* the parked signup's insert and its answer
SignupInsert(s) ==
    /\ reqs[s].op = "signup"
    /\ LET r == insertUser(variant, users, reqs[s].username, reqs[s].password)
           a == signupAnswer(variant, r)
       IN  /\ users' = r.users
           /\ resp' = AfterWrite(Reply("signup", a.status, a.msg,
                                       Credentials(reqs[s].username, reqs[s].password), <<>>))
    /\ reqs' = [reqs EXCEPT ![s] = Idle]
    /\ UNCHANGED <<conn, page, variant, queries, query_tags, nextId, now>>

\* mutant: an unknown username is told apart by status 404
loginAnswer_404(v, us, username, password, t) ==
    LET i == findUser(v, us, username)
        arg == Credentials(username, password)
    IN  IF v = "express" /\ (~Truthy(username) \/ ~Truthy(password))
        THEN Reply("login", 400, "Username and password are required.", arg, <<>>)
        ELSE IF i = 0
        THEN Reply("login", 404, "User not found.", arg, <<>>)
        ELSE IF ~bcryptCompare(password, us[i].passwordHash)
        THEN Reply("login", 401, "Invalid credentials.", arg, <<>>)
        ELSE Reply("login", 200, "", arg,
                   [token |-> sign(UserOf(us, i), t), username |-> us[i].username])

\* mutant: an unknown username is told apart by the message
loginAnswer_Leak(v, us, username, password, t) ==
    LET i == findUser(v, us, username)
        arg == Credentials(username, password)
    IN  IF v = "express" /\ (~Truthy(username) \/ ~Truthy(password))
        THEN Reply("login", 400, "Username and password are required.", arg, <<>>)
        ELSE IF i = 0
        THEN Reply("login", 401, "User not found.", arg, <<>>)
        ELSE IF ~bcryptCompare(password, us[i].passwordHash)
        THEN Reply("login", 401, "Invalid credentials.", arg, <<>>)
        ELSE Reply("login", 200, "", arg,
                   [token |-> sign(UserOf(us, i), t), username |-> us[i].username])

\* POST /login: the whole handler, it reads the users collection once
loginAnswer(v, us, username, password, t) ==
    LET i == findUser(v, us, username)
        arg == Credentials(username, password)
    IN  IF v = "express" /\ (~Truthy(username) \/ ~Truthy(password))
        THEN Reply("login", 400, "Username and password are required.", arg, <<>>)
        ELSE IF i = 0
        THEN Reply("login", 401, "Invalid credentials.", arg, <<>>)
        ELSE IF ~bcryptCompare(password, us[i].passwordHash)
        THEN Reply("login", 401, "Invalid credentials.", arg, <<>>)
        ELSE Reply("login", 200, "", arg,
                   [token |-> sign(UserOf(us, i), t), username |-> us[i].username])

Login(username, password) ==
    /\ resp' = loginAnswer(variant, users, username, password, now)
    /\ UNCHANGED <<conn, page, variant, users, queries, query_tags, nextId, now, reqs>>

Tick ==
    /\ now < MaxTicks * TokenTTL
    /\ now' = now + TokenTTL
    /\ resp' = NoResp
    /\ UNCHANGED <<conn, page, variant, users, queries, query_tags, nextId, reqs>>

\* ----------------------------------------------- credential store alone
NoQueries == [q \in {} |-> 0]

InitAuth ==
    /\ variant \in Variants
    /\ users = <<>>
    /\ queries = NoQueries
    /\ query_tags = {}
    /\ nextId = 1
    /\ now = 0
    /\ reqs = [s \in Slots |-> Idle]
    /\ resp = NoResp
    /\ page = PageLoaded
    /\ conn = NoClient("plain")


NextAuth ==
    \/ \E u \in Usernames, p \in Passwords : SignupD1(u, p)
    \/ \E s \in Slots, u \in Usernames, p \in Passwords : SignupBegin(s, u, p)
    \/ \E s \in Slots : SignupInsert(s)
    \/ \E u \in Usernames, p \in Passwords : Login(u, p)
    \/ Tick

SpecAuth == InitAuth /\ [][NextAuth]_vars

\* one signup at a time: a request starts only when none is parked
NextAuthSeq ==
    \/ \E u \in Usernames, p \in Passwords : SignupD1(u, p)
    \/ \E s \in Slots, u \in Usernames, p \in Passwords : AllIdle /\ SignupBegin(s, u, p)
    \/ \E s \in Slots : SignupInsert(s)
    \/ \E u \in Usernames, p \in Passwords : Login(u, p)
    \/ Tick

SpecAuthSeq == InitAuth /\ [][NextAuthSeq]_vars

\* ------------------------------------------------------ claims about auth

Registered(us, username) == \E i \in 1..Len(us) : us[i].username = username

\* C2: two signups for the same not yet registered username that both
\* passed the look-up never both succeed: the one whose insert comes second
\* is answered 409.
C2_RaceLoser ==
    \E s \in Slots :
        /\ reqs[s].op = "signup"
        /\ reqs'[s] = Idle
        /\ findUser(variant, users, reqs[s].username) # 0

C2_ExactlyOneSucceeds == [][C2_RaceLoser => resp'.status = 409]_vars

\* C3: no two user records carry the same username.
C3_UniqueUsernames ==
    \A i, j \in 1..Len(users) : i # j => users[i].username # users[j].username

\* C4: a signup with a username and a password, nothing else in flight,
\* answers 201 and adds exactly one record with that username iff the
\* username was not registered; otherwise it answers 409 and adds nothing.
C4_Answered ==
    /\ resp'.op = "signup"
    /\ Truthy(resp'.arg.username)
    /\ Truthy(resp'.arg.password)

C4_Created(username) ==
    /\ resp'.status = 201
    /\ Len(users') = Len(users) + 1
    /\ SubSeq(users', 1, Len(users)) = users
    /\ users'[Len(users')].username = username

C4_Step ==
    C4_Answered =>
        /\ C4_Created(resp'.arg.username) <=> ~Registered(users, resp'.arg.username)
        /\ Registered(users, resp'.arg.username) => resp'.status = 409 /\ users' = users

C4_SignupOutcome == [][C4_Step]_vars

\* C5: a failed login is answered 401 with one and the same body whether
\* the username is unknown or the password is wrong.
LoginFails(username, password) ==
    /\ Truthy(username)
    /\ Truthy(password)
    /\ \/ findUser(variant, users, username) = 0
       \/ ~bcryptCompare(password, users[findUser(variant, users, username)].passwordHash)

SameAnswer(r1, r2) == r1.status = r2.status /\ r1.msg = r2.msg /\ r1.data = r2.data

C7_LoginIdentity ==
    resp.op = "login" =>
        \A i \in 1..Len(users) :
            (/\ users[i].username = resp.arg.username
             /\ bcryptCompare(resp.arg.password, users[i].passwordHash)) =>
                /\ resp.status = 200
                /\ resp.data.token.user = UserOf(users, i)
                /\ resp.data.token.exp > now

\* ------------------------------------------------------------ query store
NotFoundMsg(v) ==
    IF v = "express" THEN "Query not found or user not authorized."
    ELSE "Query not found or unauthorized."

\* an uncaught exception in a Hono handler / the catch block of an Express one
FaultMsg(v, what) == IF v = "express" THEN what ELSE "Internal Server Error"

\* mutant: the filter names the id alone
Owned_AnyCaller(qs, qid, who) == qid \in DOMAIN qs

\* the filter { _id: id, user: user.id } / WHERE id = ? AND user_id = ?
Owned(qs, qid, who) == qid \in DOMAIN qs /\ qs[qid].user = who

Without(qs, qid) == [q \in DOMAIN qs \ {qid} |-> qs[q]]

With(qs, qid, doc) == [q \in DOMAIN qs \cup {qid} |-> IF q = qid THEN doc ELSE qs[q]]

RowsOf(rows, qid) == {r \in rows : r[1] = qid}

\* for (const tag of tagValues) INSERT INTO query_tags ...: stops at the
\* first row that violates PRIMARY KEY (query_id, tag)
RECURSIVE insertTags(_, _, _)
insertTags(rows, qid, tagValues) ==
    IF tagValues = <<>> THEN [ok |-> TRUE, rows |-> rows]
    ELSE IF <<qid, Head(tagValues)>> \in rows THEN [ok |-> FALSE, rows |-> rows]
    ELSE insertTags(rows \cup {<<qid, Head(tagValues)>>}, qid, Tail(tagValues))

\* const processedTags = tags ? tags.map(...).filter(...) : []
processedTags(tags) == IF tags.present THEN processTags(tags.list) ELSE <<>>

\* if (tags && tags.length > 0) { insert each of tagValues }
writeTags(rows, qid, tags) ==
    IF tags.present /\ Len(tags.list) > 0
    THEN insertTags(rows, qid, processTags(tags.list))
    ELSE [ok |-> TRUE, rows |-> rows]

Invalid(body) == ~Truthy(body.title) \/ ~Truthy(body.text)

Outcome(status, msg, qs, rows, data) ==
    [status |-> status, msg |-> msg, queries |-> qs, query_tags |-> rows, data |-> data]

NewDoc(who, body, tags, t) ==
    [user |-> who, title |-> body.title, text |-> body.text, tags |-> tags,
     isPublic |-> FALSE, shareId |-> NoShare, createdAt |-> t]

Item(qs, qid, tags) ==
    [id |-> qid, user |-> qs[qid].user, title |-> qs[qid].title, text |-> qs[qid].text,
     tags |-> tags, isPublic |-> qs[qid].isPublic, shareId |-> qs[qid].shareId,
     createdAt |-> qs[qid].createdAt]

\* POST /queries after the auth gate
createQuery(v, qs, rows, id, who, body, t) ==
    IF v = "d1"
    THEN LET qs1 == With(qs, id, NewDoc(who, body, <<>>, t))
             w   == writeTags(rows, id, body.tags)
         IN  IF w.ok
             THEN Outcome(201, "", qs1, w.rows,
                          [id |-> id, title |-> body.title, text |-> body.text,
                           tags |-> body.tags])
             ELSE Outcome(500, FaultMsg(v, ""), qs1, w.rows, <<>>)
    ELSE IF Invalid(body)
    THEN Outcome(400, "Title and text are required.", qs, rows, <<>>)
    ELSE LET qs1 == With(qs, id, NewDoc(who, body, processedTags(body.tags), t))
         IN  Outcome(201, "", qs1, rows, Item(qs1, id, qs1[id].tags))

\* mutant: the update applies whatever fields the body carries
updateQuery_WholeBody(v, qs, rows, qid, who, body) ==
    LET o == IF v = "d1"
             THEN IF ~Owned(qs, qid, who)
                  THEN Outcome(404, NotFoundMsg(v), qs, rows, <<>>)
                  ELSE Outcome(200, "Query updated successfully.",
                               [qs EXCEPT ![qid].title = body.title, ![qid].text = body.text],
                               rows, <<>>)
             ELSE IF Invalid(body)
             THEN Outcome(400, "Title and text are required.", qs, rows, <<>>)
             ELSE IF ~Owned(qs, qid, who)
             THEN Outcome(404, NotFoundMsg(v), qs, rows, <<>>)
             ELSE Outcome(200, "",
                          [qs EXCEPT ![qid].title = body.title, ![qid].text = body.text,
                                     ![qid].tags = processedTags(body.tags)],
                          rows, <<>>)
    IN  IF o.status = 200 /\ "isPublic" \in DOMAIN body
        THEN [o EXCEPT !.queries[qid].isPublic = body.isPublic,
                       !.queries[qid].user = body.user]
        ELSE o

\* mutant: a body without a tags field leaves the stored tags alone
updateQuery_KeepTags(v, qs, rows, qid, who, body) ==
    IF v = "d1"
    THEN IF ~Owned(qs, qid, who)
         THEN Outcome(404, NotFoundMsg(v), qs, rows, <<>>)
         ELSE LET qs1 == [qs EXCEPT ![qid].title = body.title, ![qid].text = body.text]
                  w   == IF body.tags.present
                         THEN writeTags(rows \ RowsOf(rows, qid), qid, body.tags)
                         ELSE [ok |-> TRUE, rows |-> rows]
              IN  IF w.ok
                  THEN Outcome(200, "Query updated successfully.", qs1, w.rows, <<>>)
                  ELSE Outcome(500, FaultMsg(v, ""), qs1, w.rows, <<>>)
    ELSE IF Invalid(body)
    THEN Outcome(400, "Title and text are required.", qs, rows, <<>>)
    ELSE IF ~Owned(qs, qid, who)
    THEN Outcome(404, NotFoundMsg(v), qs, rows, <<>>)
    ELSE LET qs1 == [qs EXCEPT ![qid].title = body.title, ![qid].text = body.text,
                               ![qid].tags = IF body.tags.present
                                             THEN processedTags(body.tags) ELSE @]
         IN  Outcome(200, "", qs1, rows, Item(qs1, qid, qs1[qid].tags))

\* PUT /queries/:id after the auth gate
updateQuery(v, qs, rows, qid, who, body) ==
    IF v = "d1"
    THEN IF ~Owned(qs, qid, who)
         THEN Outcome(404, NotFoundMsg(v), qs, rows, <<>>)
         ELSE LET qs1 == [qs EXCEPT ![qid].title = body.title, ![qid].text = body.text]
                  w   == writeTags(rows \ RowsOf(rows, qid), qid, body.tags)
              IN  IF w.ok
                  THEN Outcome(200, "Query updated successfully.", qs1, w.rows, <<>>)
                  ELSE Outcome(500, FaultMsg(v, ""), qs1, w.rows, <<>>)
    ELSE IF Invalid(body)
    THEN Outcome(400, "Title and text are required.", qs, rows, <<>>)
    ELSE IF ~Owned(qs, qid, who)
    THEN Outcome(404, NotFoundMsg(v), qs, rows, <<>>)
    ELSE LET qs1 == [qs EXCEPT ![qid].title = body.title, ![qid].text = body.text,
                               ![qid].tags = processedTags(body.tags)]
         IN  Outcome(200, "", qs1, rows, Item(qs1, qid, qs1[qid].tags))

\* mutant: another user's query is refused as forbidden, a missing one as not found
deleteQuery_Forbidden(v, qs, rows, qid, who) ==
    IF qid \notin DOMAIN qs
    THEN Outcome(404, NotFoundMsg(v), qs, rows, <<>>)
    ELSE IF qs[qid].user # who
    THEN Outcome(403, "Forbidden.", qs, rows, <<>>)
    ELSE Outcome(200, "Query deleted successfully.", Without(qs, qid),
                 rows \ RowsOf(rows, qid), <<>>)

\* DELETE /queries/:id after the auth gate; query_tags rows go with their
\* query (ON DELETE CASCADE)
deleteQuery(v, qs, rows, qid, who) ==
    IF ~Owned(qs, qid, who)
    THEN Outcome(404, NotFoundMsg(v), qs, rows, <<>>)
    ELSE Outcome(200, "Query deleted successfully.", Without(qs, qid),
                 rows \ RowsOf(rows, qid), <<>>)

\* mutant: the handler never returns the existing shareId
shareFind_AlwaysMint(v, qs, qid, who) ==
    IF ~Owned(qs, qid, who)
    THEN [status |-> 404, msg |-> NotFoundMsg(v), shareId |-> NoShare]
    ELSE [status |-> 0, msg |-> "", shareId |-> NoShare]

\* POST /queries/:id/share up to and including its look-up; status 0 means
\* the handler goes on to mint a shareId and write it
shareFind(v, qs, qid, who) ==
    IF ~Owned(qs, qid, who)
    THEN [status |-> 404, msg |-> NotFoundMsg(v), shareId |-> NoShare]
    ELSE IF qs[qid].isPublic /\ qs[qid].shareId # NoShare
    THEN [status |-> 200, msg |-> "", shareId |-> qs[qid].shareId]
    ELSE [status |-> 0, msg |-> "", shareId |-> NoShare]

\* the storage layer's own uniqueness rule on the share token: schema.sql
\* share_id UNIQUE, querySchema shareId unique + sparse
UniqueShareId(v) == v \in {"express", "d1"}

TakenByOther(qs, qid, sid) == \E q \in DOMAIN qs \ {qid} : qs[q].shareId = sid

\* mutant: the write stores the shareId and forgets the isPublic flag
shareWrite_TokenOnly(v, qs, qid, sid) ==
    IF UniqueShareId(v) /\ TakenByOther(qs, qid, sid)
    THEN [status |-> 500, msg |-> FaultMsg(v, "Error sharing query."), queries |-> qs]
    ELSE IF qid \notin DOMAIN qs
    THEN IF v = "express"
         THEN [status |-> 500, msg |-> FaultMsg(v, "Error sharing query."), queries |-> qs]
         ELSE [status |-> 200, msg |-> "", queries |-> qs]
    ELSE [status |-> 200, msg |-> "", queries |-> [qs EXCEPT ![qid].shareId = sid]]

\* the write of share and its answer: query.save() / UPDATE queries SET
\* share_id = ?, is_public = 1 WHERE id = ? / updateOne({ _id }, { $set })
shareWrite(v, qs, qid, sid) ==
    IF UniqueShareId(v) /\ TakenByOther(qs, qid, sid)
    THEN [status |-> 500, msg |-> FaultMsg(v, "Error sharing query."), queries |-> qs]
    ELSE IF qid \notin DOMAIN qs
    THEN IF v = "express"
         THEN [status |-> 500, msg |-> FaultMsg(v, "Error sharing query."), queries |-> qs]
         ELSE [status |-> 200, msg |-> "", queries |-> qs]
    ELSE [status |-> 200, msg |-> "",
          queries |-> [qs EXCEPT ![qid].shareId = sid, ![qid].isPublic = TRUE]]

\* ------------------------------------------------------- reading queries
RECURSIVE Perms(_)
Perms(S) ==
    IF S = {} THEN {<<>>}
    ELSE UNION {{<<x>> \o p : p \in Perms(S \ {x})} : x \in S}

RECURSIVE join(_)
join(ts) ==
    IF ts = <<>> THEN <<>>
    ELSE IF Len(ts) = 1 THEN Head(ts)
    ELSE Head(ts) \o <<",">> \o join(Tail(ts))

\* str.split(','): one more piece than there are commas
RECURSIVE splitFrom(_, _)
splitFrom(s, piece) ==
    IF s = <<>> THEN <<piece>>
    ELSE IF Head(s) = "," THEN <<piece>> \o splitFrom(Tail(s), <<>>)
    ELSE splitFrom(Tail(s), Append(piece, Head(s)))

split(s) == splitFrom(s, <<>>)

\* GROUP_CONCAT(t.tag) over the rows of one query, in any row order, then
\* q.tags ? q.tags.split(',') : []
GroupConcatTags(rows, qid) ==
    IF RowsOf(rows, qid) = {} THEN {<<>>}
    ELSE {split(join(p)) : p \in Perms({r[2] : r \in RowsOf(rows, qid)})}

ReadTags(v, qs, rows, qid) ==
    IF v = "d1" THEN GroupConcatTags(rows, qid) ELSE {qs[qid].tags}

OwnedIds(qs, who) == {q \in DOMAIN qs : qs[q].user = who}

\* .sort({ createdAt: -1 }) / ORDER BY q.created_at DESC
NewestFirst(qs, order) ==
    \A i, j \in 1..Len(order) : i < j => qs[order[i]].createdAt >= qs[order[j]].createdAt

\* GET /queries after the auth gate: every listing the store may return
listQueries(v, qs, rows, who) ==
    UNION {
        { [i \in 1..Len(order) |-> Item(qs, order[i], pick[order[i]])] :
            pick \in {f \in [OwnedIds(qs, who) ->
                                UNION {ReadTags(v, qs, rows, q) : q \in OwnedIds(qs, who)}] :
                          \A q \in OwnedIds(qs, who) : f[q] \in ReadTags(v, qs, rows, q)} }
        : order \in {o \in Perms(OwnedIds(qs, who)) : NewestFirst(qs, o)} }

charCode(c) ==
    CASE c = " " -> 32 [] c = "," -> 44 [] c = "A" -> 65 [] c = "B" -> 66
      [] c = "a" -> 97 [] c = "b" -> 98 [] OTHER -> 120

RECURSIVE StrLess(_, _)
StrLess(a, b) ==
    IF a = <<>> THEN b # <<>>
    ELSE IF b = <<>> THEN FALSE
    ELSE IF Head(a) = Head(b) THEN StrLess(Tail(a), Tail(b))
    ELSE charCode(Head(a)) < charCode(Head(b))

Ascending(S) ==
    CHOOSE p \in Perms(S) : \A i, j \in 1..Len(p) : i < j => StrLess(p[i], p[j])

Elements(ts) == {ts[i] : i \in 1..Len(ts)}

\* mutant: the pipeline has no $match on the caller, the SELECT no WHERE
listTags_AllOwners(v, qs, rows, who) ==
    IF v = "d1"
    THEN Ascending({r[2] : r \in {x \in rows : x[1] \in DOMAIN qs}})
    ELSE Ascending(UNION {Elements(qs[q].tags) : q \in DOMAIN qs})

\* GET /tags after the auth gate: $match, $unwind, $group, $sort /
\* SELECT DISTINCT t.tag ... WHERE q.user_id = ? ORDER BY t.tag ASC
listTags(v, qs, rows, who) ==
    IF v = "d1"
    THEN Ascending({r[2] : r \in {x \in rows : x[1] \in OwnedIds(qs, who)}})
    ELSE Ascending(UNION {Elements(qs[q].tags) : q \in OwnedIds(qs, who)})

\* ------------------------------------------------------- protected routes
\* (\E x \in {e} : ... names the value of e once, as a const does)
NoBody == [title |-> Empty, text |-> Empty, tags |-> NoTags]

\* the request as the answer tells it: a 401 names only the header, a 404
\* the caller and the id
Arg(h, who, qid, body) == [hdr |-> h, who |-> who, qid |-> qid, body |-> body]

BodyTold(status, body) == IF status = 404 THEN NoBody ELSE body

Unauthorized(op, a, h, qid, body) ==
    /\ resp' = Reply(op, 401, a.msg, Arg(h, 0, 0, NoBody), <<>>)
    /\ UNCHANGED <<conn, page, variant, users, queries, query_tags, nextId, now, reqs>>

GetQueries(h) ==
    \E a \in {Authenticate(variant, h, now)} :
        IF ~a.ok THEN Unauthorized("list", a, h, 0, NoBody)
        ELSE /\ \E items \in listQueries(variant, queries, query_tags, a.user.id) :
                   resp' = Reply("list", 200, "", Arg(h, a.user.id, 0, NoBody), items)
             /\ UNCHANGED <<conn, page, variant, users, queries, query_tags, nextId, now, reqs>>

GetTags(h) ==
    \E a \in {Authenticate(variant, h, now)} :
        IF ~a.ok THEN Unauthorized("tags", a, h, 0, NoBody)
        ELSE /\ resp' = Reply("tags", 200, "", Arg(h, a.user.id, 0, NoBody),
                              listTags(variant, queries, query_tags, a.user.id))
             /\ UNCHANGED <<conn, page, variant, users, queries, query_tags, nextId, now, reqs>>

PostQuery(h, body) ==
    \E a \in {Authenticate(variant, h, now)} :
        IF ~a.ok THEN Unauthorized("create", a, h, 0, body)
        ELSE \E o \in {createQuery(variant, queries, query_tags, nextId, a.user.id, body, now)} :
                 /\ nextId <= MaxQueries
                 /\ queries' = o.queries
                 /\ query_tags' = o.query_tags
                 /\ nextId' = IF nextId \in DOMAIN o.queries THEN nextId + 1 ELSE nextId
                 /\ resp' = Reply("create", o.status, o.msg, Arg(h, a.user.id, 0, body), o.data)
                 /\ UNCHANGED <<conn, page, variant, users, now, reqs>>

PutQuery(h, qid, body) ==
    \E a \in {Authenticate(variant, h, now)} :
        IF ~a.ok THEN Unauthorized("update", a, h, qid, body)
        ELSE \E o \in {updateQuery(variant, queries, query_tags, qid, a.user.id, body)} :
                 /\ queries' = o.queries
                 /\ query_tags' = o.query_tags
                 /\ resp' = Reply("update", o.status, o.msg,
                                  Arg(h, a.user.id, qid, BodyTold(o.status, body)), o.data)
                 /\ UNCHANGED <<conn, page, variant, users, nextId, now, reqs>>

DeleteQuery(h, qid) ==
    \E a \in {Authenticate(variant, h, now)} :
        IF ~a.ok THEN Unauthorized("delete", a, h, qid, NoBody)
        ELSE \E o \in {deleteQuery(variant, queries, query_tags, qid, a.user.id)} :
                 /\ queries' = o.queries
                 /\ query_tags' = o.query_tags
                 /\ resp' = Reply("delete", o.status, o.msg, Arg(h, a.user.id, qid, NoBody), o.data)
                 /\ UNCHANGED <<conn, page, variant, users, nextId, now, reqs>>

\* POST /queries/:id/share: auth gate and look-up; a query that is still
\* private parks the request for its write
ShareBegin(s, h, qid) ==
    \E a \in {Authenticate(variant, h, now)} :
        /\ FreeSlot(s)
        /\ IF ~a.ok THEN Unauthorized("share", a, h, qid, NoBody)
           ELSE \E f \in {shareFind(variant, queries, qid, a.user.id)} :
                    /\ IF f.status = 0
                       THEN /\ resp' = NoResp
                            /\ reqs' = [reqs EXCEPT ![s] =
                                          [Idle EXCEPT !.op = "share", !.hdr = h,
                                                       !.who = a.user.id, !.qid = qid]]
                       ELSE /\ resp' = Reply("share", f.status, f.msg,
                                             Arg(h, a.user.id, qid, NoBody), f.shareId)
                            /\ reqs' = reqs
                    /\ UNCHANGED <<conn, page, variant, users, queries, query_tags, nextId, now>>

\* the parked share: mint a shareId, write it, answer
ShareWrite(s, sid) ==
    /\ reqs[s].op = "share"
    /\ \E w \in {shareWrite(variant, queries, reqs[s].qid, sid)} :
           /\ queries' = w.queries
           /\ resp' = AfterWrite(Reply("share", w.status, w.msg,
                                       Arg(reqs[s].hdr, reqs[s].who, reqs[s].qid, NoBody),
                                       IF w.status = 200 THEN sid ELSE NoShare))
    /\ reqs' = [reqs EXCEPT ![s] = Idle]
    /\ UNCHANGED <<conn, page, variant, users, query_tags, nextId, now>>

\* ------------------------------------------------------ the whole service
\* two users have signed up and logged in, one token lifetime has passed
\* since the first tokens were issued; the query store is empty
Alice == [username |-> NameA, passwordHash |-> bcryptHash(<<"p">>)]
Bob   == [username |-> NameB, passwordHash |-> bcryptHash(<<"q">>)]

Init ==
    /\ variant \in Variants
    /\ users = <<Alice, Bob>>
    /\ queries = NoQueries
    /\ query_tags = {}
    /\ nextId = 1
    /\ now = TokenTTL
    /\ reqs = [s \in Slots |-> Idle]
    /\ resp = NoResp
    /\ page = PageLoaded
    /\ conn = NoClient("plain")

Targets == 1..MaxQueries

\* the headers of logged-in clients: a token login issued that has not expired
Sessions(us, t) == {Bearer(k) : k \in {x \in IssuedTokens(us, t) : verify(x, t)}}

\* logged-in clients, requests overlapping freely
Next ==
    \/ \E h \in Sessions(users, now) : GetQueries(h)
    \/ \E h \in Sessions(users, now) : GetTags(h)
    \/ \E h \in Sessions(users, now), b \in Bodies : PostQuery(h, b)
    \/ \E h \in Sessions(users, now), q \in Targets, b \in Bodies : PutQuery(h, q, b)
    \/ \E h \in Sessions(users, now), q \in Targets : DeleteQuery(h, q)
    \/ \E s \in Slots, h \in Sessions(users, now), q \in Targets : ShareBegin(s, h, q)
    \/ \E s \in Slots, sid \in ShareIds : ShareWrite(s, sid)

Spec == Init /\ [][Next]_vars

\* logged-in clients, one request at a time: a request starts only when
\* none is parked
NextSeq ==
    \/ \E h \in Sessions(users, now) : AllIdle /\ GetQueries(h)
    \/ \E h \in Sessions(users, now) : AllIdle /\ GetTags(h)
    \/ \E h \in Sessions(users, now), b \in Bodies : AllIdle /\ PostQuery(h, b)
    \/ \E h \in Sessions(users, now), q \in Targets, b \in Bodies : AllIdle /\ PutQuery(h, q, b)
    \/ \E h \in Sessions(users, now), q \in Targets : AllIdle /\ DeleteQuery(h, q)
    \/ \E s \in Slots, h \in Sessions(users, now), q \in Targets : AllIdle /\ ShareBegin(s, h, q)
    \/ \E s \in Slots, sid \in ShareIds : ShareWrite(s, sid)

SpecSeq == Init /\ [][NextSeq]_vars

\* one logged-in client and every kind of header, one request at a time
GateHeaders(us, t) == {h \in Headers(us, t) : h.token.user.id # 2 \/ ~verify(h.token, t)}

NextGate ==
    \/ \E h \in GateHeaders(users, now) : AllIdle /\ GetQueries(h)
    \/ \E h \in GateHeaders(users, now) : AllIdle /\ GetTags(h)
    \/ \E h \in GateHeaders(users, now), b \in Bodies : AllIdle /\ PostQuery(h, b)
    \/ \E h \in GateHeaders(users, now), q \in Targets, b \in Bodies : AllIdle /\ PutQuery(h, q, b)
    \/ \E h \in GateHeaders(users, now), q \in Targets : AllIdle /\ DeleteQuery(h, q)
    \/ \E s \in Slots, h \in GateHeaders(users, now), q \in Targets : AllIdle /\ ShareBegin(s, h, q)
    \/ \E s \in Slots, sid \in ShareIds : ShareWrite(s, sid)

SpecGate == Init /\ [][NextGate]_vars

\* ------------------------------------------------- claims about queries

Record(qs, rows, q) == <<qs[q], RowsOf(rows, q)>>

\* the step answers a request of another user than q's owner against q
C1_Foreign(q) ==
    /\ resp'.op \in {"update", "delete", "share"}
    /\ resp'.arg.qid = q
    /\ resp'.arg.who # queries[q].user

C1_Untouched(q) ==
    /\ q \in DOMAIN queries'
    /\ Record(queries', query_tags', q) = Record(queries, query_tags, q)

C1_ListOwnOnly ==
    (resp'.op = "list" /\ resp'.status = 200) =>
        \A i \in 1..Len(resp'.data) : resp'.data[i].user = resp'.arg.who

\* C1 as stated: B's list never shows A's query, and B's update, delete and
\* share against A's query are all answered 404 and leave its record alone.
C1_AllAnswer404 ==
    [][/\ C1_ListOwnOnly
       /\ \A q \in DOMAIN queries :
            C1_Foreign(q) => resp'.status = 404 /\ C1_Untouched(q)]_vars

\* C1 amended: as stated, except that an update whose title or text is
\* empty may be answered 400 instead of 404; the record is untouched either way.
C1_OwnerIsolation ==
    [][/\ C1_ListOwnOnly
       /\ \A q \in DOMAIN queries :
            C1_Foreign(q) =>
                /\ \/ resp'.status = 404
                   \/ /\ resp'.op = "update"
                      /\ Invalid(resp'.arg.body)
                      /\ resp'.status = 400
                /\ C1_Untouched(q)]_vars

C1_Witness ==
    /\ resp.op \in {"update", "delete", "share"}
    /\ resp.status = 404
    /\ resp.arg.qid \in DOMAIN queries
    /\ queries[resp.arg.qid].user # resp.arg.who
    /\ \E q \in DOMAIN queries : queries[q].user = resp.arg.who

\* C8: a protected request without a header, or with a token that is
\* malformed, wrongly signed or expired, is answered 401 and nothing in the
\* stores changes, nor is a request parked for a later write.
Protected == {"list", "tags", "create", "update", "delete", "share"}

C8_BadHeader(h, t) == h.scheme = "none" \/ ~verify(h.token, t)

C8_GateFirst ==
    [][(resp'.op \in Protected /\ C8_BadHeader(resp'.arg.hdr, now)) =>
           /\ resp'.status = 401
           /\ UNCHANGED <<users, queries, query_tags, nextId, reqs>>]_vars

C8_Witness ==
    /\ resp.op \in {"update", "delete", "share"}
    /\ resp.status = 401
    /\ resp.arg.hdr.token.sig = "good"
    /\ resp.arg.hdr.token.exp <= now
    /\ DOMAIN queries # {}

\* C9: right after share answered 200 for a query, another share by the same
\* caller on the same query answers 200 with the same shareId from its
\* look-up alone, writes nothing, and the query is public before and after.
C9_Repeated(q, who) ==
    /\ resp'.op = "share"
    /\ resp'.arg.qid = q
    /\ resp'.arg.who = who

C9_GoesOnToWrite(q, who) ==
    \E s \in Slots :
        /\ reqs[s] = Idle
        /\ reqs'[s].op = "share"
        /\ reqs'[s].qid = q
        /\ reqs'[s].who = who

C9_Step ==
    (resp.op = "share" /\ resp.status = 200) =>
        /\ ~C9_GoesOnToWrite(resp.arg.qid, resp.arg.who)
        /\ C9_Repeated(resp.arg.qid, resp.arg.who) =>
              /\ resp'.status = 200
              /\ resp'.data = resp.data
              /\ resp'.calls = 1
              /\ UNCHANGED <<users, queries, query_tags, nextId>>
              /\ queries[resp.arg.qid].isPublic
              /\ queries'[resp.arg.qid].isPublic

C9_ShareIdempotent == [][C9_Step]_vars

C9_Witness ==
    /\ resp.op = "share"
    /\ resp.status = 200
    /\ resp.calls = 1
    /\ resp.arg.qid \in DOMAIN queries
    /\ queries[resp.arg.qid].isPublic
    /\ queries[resp.arg.qid].shareId = resp.data

\* C10: a share token that is set never changes while its query exists.
C10_TokenStable ==
    [][\A q \in DOMAIN queries \cap DOMAIN queries' :
          queries[q].shareId # NoShare => queries'[q].shareId = queries[q].shareId]_vars

\* C11: every stored query has a share token exactly when it is public.
C11_TokenIffPublic ==
    \A q \in DOMAIN queries : (queries[q].shareId # NoShare) <=> queries[q].isPublic

C11_Witness ==
    /\ resp.op = "share"
    /\ resp.status = 200
    /\ resp.calls = 2
    /\ \E q \in DOMAIN queries : queries[q].isPublic /\ queries[q].shareId # NoShare
    /\ \E q \in DOMAIN queries : ~queries[q].isPublic /\ queries[q].shareId = NoShare

\* C12: no two distinct stored queries carry the same non-null share token,
\* whatever token share mints.
C12_TokenUnique ==
    \A p, q \in DOMAIN queries :
        (p # q /\ queries[p].shareId # NoShare) => queries[p].shareId # queries[q].shareId

\* ---------------------------------------------------------- public route
\* share ids a visitor may ask for: the minted ones and one never minted
PublicIds == ShareIds \cup {"s3"}

\* mutant: the look-up matches on the share id alone
PublicMatches_AnyVisibility(qs, sid) == {q \in DOMAIN qs : qs[q].shareId = sid}

\* findOne({ shareId, isPublic: true }) / WHERE q.share_id = ? AND q.is_public = 1
PublicMatches(qs, sid) == {q \in DOMAIN qs : qs[q].shareId = sid /\ qs[q].isPublic}

\* mutant: the handler answers with the stored record itself
PublicView_WholeRecord(qs, qid, tags) == Item(qs, qid, tags)

\* the body of a 200: { title, text, tags, createdAt }
PublicView(qs, qid, tags) ==
    [title |-> qs[qid].title, text |-> qs[qid].text, tags |-> tags,
     createdAt |-> qs[qid].createdAt]

\* GET /public/queries/:shareId: every answer the store may give
publicQuery(v, qs, rows, sid) ==
    IF PublicMatches(qs, sid) = {}
    THEN {[status |-> 404, msg |-> "Shared query not found.", data |-> <<>>]}
    ELSE UNION {{[status |-> 200, msg |-> "", data |-> PublicView(qs, q, t)] :
                    t \in ReadTags(v, qs, rows, q)} : q \in PublicMatches(qs, sid)}

Asked(sid) == [shareId |-> sid]

GetPublic(sid) ==
    /\ \E o \in publicQuery(variant, queries, query_tags, sid) :
           resp' = Reply("public", o.status, o.msg, Asked(sid), o.data)
    /\ UNCHANGED <<conn, page, variant, users, queries, query_tags, nextId, now, reqs>>

\* logged-in clients writing one request at a time, visitors reading
NextPublic ==
    \/ \E h \in Sessions(users, now), b \in Bodies : AllIdle /\ PostQuery(h, b)
    \/ \E h \in Sessions(users, now), q \in Targets, b \in Bodies : AllIdle /\ PutQuery(h, q, b)
    \/ \E h \in Sessions(users, now), q \in Targets : AllIdle /\ DeleteQuery(h, q)
    \/ \E s \in Slots, h \in Sessions(users, now), q \in Targets : AllIdle /\ ShareBegin(s, h, q)
    \/ \E s \in Slots, sid \in ShareIds : ShareWrite(s, sid)
    \/ \E sid \in PublicIds : GetPublic(sid)

SpecPublic == Init /\ [][NextPublic]_vars

\* C13: a 200 from the public route carries exactly title, text, tags and
\* createdAt of a query shared under the id asked for, and nothing else of it.
C13_PublicFields ==
    (resp.op = "public" /\ resp.status = 200) =>
        /\ DOMAIN resp.data = {"title", "text", "tags", "createdAt"}
        /\ \E q \in DOMAIN queries :
             /\ queries[q].shareId = resp.arg.shareId
             /\ resp.data.title = queries[q].title
             /\ resp.data.text = queries[q].text
             /\ resp.data.createdAt = queries[q].createdAt
             /\ resp.data.tags \in ReadTags(variant, queries, query_tags, q)

C13_Witness ==
    /\ resp.op = "public"
    /\ resp.status = 200
    /\ resp.data.tags # <<>>
    /\ \E q \in DOMAIN queries : queries[q].shareId = resp.arg.shareId /\ queries[q].user = 2

\* C14: the public route answers 200 only when a stored public query carries
\* the id asked for, and otherwise one and the same 404; the answer for the
\* id of a query that is not public (the store with that query's flag off)
\* is the answer for an id no query carries.
Hidden(qs, q) == [qs EXCEPT ![q].isPublic = FALSE]

C14_PublicOutcome ==
    /\ resp.op = "public" =>
         IF \E q \in DOMAIN queries :
                queries[q].shareId = resp.arg.shareId /\ queries[q].isPublic
         THEN resp.status = 200
         ELSE resp.status = 404 /\ resp.msg = "Shared query not found." /\ resp.data = <<>>
    /\ \A q \in DOMAIN queries :
         (/\ queries[q].shareId # NoShare
          /\ \A p \in DOMAIN queries \ {q} : queries[p].shareId # queries[q].shareId) =>
             publicQuery(variant, Hidden(queries, q), query_tags, queries[q].shareId)
                 = publicQuery(variant, queries, query_tags, "s3")

C14_Witness ==
    /\ resp.op = "public"
    /\ resp.status = 404
    /\ resp.arg.shareId \in ShareIds
    /\ \E q \in DOMAIN queries : queries[q].isPublic /\ queries[q].shareId # resp.arg.shareId

\* the step answers, from its look-up, an update, delete or share of a
\* query that is missing or belongs to another user than the caller
C15_NotTheirs ==
    /\ resp'.op \in {"update", "delete", "share"}
    /\ resp'.calls = 1
    /\ resp'.status # 401
    /\ \/ resp'.arg.qid \notin DOMAIN queries
       \/ queries[resp'.arg.qid].user # resp'.arg.who

C15_NotFoundBody ==
    /\ resp'.status = 404
    /\ resp'.msg = NotFoundMsg(variant)
    /\ resp'.data = IF resp'.op = "share" THEN NoShare ELSE <<>>

\* C15 as stated: update, delete and share answer the one 404 whether the
\* query is missing or another user's.
C15_Same404 == [][C15_NotTheirs => C15_NotFoundBody]_vars

\* C15 amended: the answer is the one 404 in both cases, except that an
\* update whose title or text is empty is answered the one 400 in both cases
\* by the back ends that validate before they look up.
C15_SameOutcome ==
    [][C15_NotTheirs =>
         \/ C15_NotFoundBody
         \/ /\ resp'.op = "update"
            /\ variant # "d1"
            /\ Invalid(resp'.arg.body)
            /\ resp'.status = 400
            /\ resp'.msg = "Title and text are required."
            /\ resp'.data = <<>>]_vars

C15_Witness ==
    /\ resp.op \in {"update", "delete", "share"}
    /\ resp.status = 404
    /\ resp.calls = 1
    /\ resp.arg.qid \notin DOMAIN queries
    /\ \E q \in DOMAIN queries : queries[q].user # resp.arg.who

\* ------------------------------------------------------------ tag inputs
\* tag lists a client may send: the list " A ", "a", "", "B" (duplicates and
\* an empty entry), a tag with a comma in it, blanks only, and a clean list
TagLists ==
    { << <<" ", "A", " ">>, <<"a">>, <<>>, <<"B">> >>,
      << <<"a", ",", "b">> >>,
      << <<>>, <<" ">> >>,
      << <<"b">>, <<"a">> >> }

TagBodies ==
    {[title |-> <<"t">>, text |-> <<"x">>, tags |-> Tags(l)] : l \in TagLists}
    \cup {[title |-> <<"u">>, text |-> <<"y">>, tags |-> NoTags]}

\* logged-in clients creating, updating and listing queries
NextTags ==
    \/ \E h \in Sessions(users, now), b \in TagBodies : PostQuery(h, b)
    \/ \E h \in Sessions(users, now), q \in Targets, b \in TagBodies : PutQuery(h, q, b)
    \/ \E h \in Sessions(users, now) : GetQueries(h)

SpecTags == Init /\ [][NextTags]_vars

\* the tags the store holds for query q after the step
C16_Stored(q) ==
    IF variant = "d1" THEN {r[2] : r \in RowsOf(query_tags', q)}
    ELSE Elements(queries'[q].tags)

C16_StoredOnce(q) ==
    variant # "d1" => Cardinality(Elements(queries'[q].tags)) = Len(queries'[q].tags)

\* the step answers a create, or an update of the caller's own query, whose
\* title and text are there
C16_Writes(q) ==
    /\ ~Invalid(resp'.arg.body)
    /\ \/ resp'.op = "create" /\ q = nextId
       \/ resp'.op = "update" /\ q = resp'.arg.qid /\ Owned(queries, q, resp'.arg.who)

\* C16: a create or update succeeds and leaves as the query's tags exactly
\* the set of its input tags trimmed, lowercased, without empties, none twice.
C16_TagsNormalized ==
    [][\A q \in Targets :
          C16_Writes(q) =>
              /\ resp'.status \in {200, 201}
              /\ q \in DOMAIN queries'
              /\ C16_Stored(q) = Elements(processedTags(resp'.arg.body.tags))
              /\ C16_StoredOnce(q)]_vars

\* C17: the listing the owner asks for right after a successful create holds
\* the new query with the title and text sent, the normalized tags as a set,
\* each tag one element, and isPublic false.
C17_ListedAfterCreate ==
    /\ resp.op = "create"
    /\ resp.status = 201
    /\ resp'.op = "list"
    /\ resp'.arg.who = resp.arg.who

C17_RoundTrip ==
    [][C17_ListedAfterCreate =>
         \E i \in 1..Len(resp'.data) :
             /\ resp'.data[i].id = resp.data.id
             /\ resp'.data[i].title = resp.arg.body.title
             /\ resp'.data[i].text = resp.arg.body.text
             /\ Elements(resp'.data[i].tags) = Elements(processedTags(resp.arg.body.tags))
             /\ ~resp'.data[i].isPublic]_vars

\* ---------------------------------------------------------- update frame
\* update bodies that also name fields the handler does not destructure
FrameBodies ==
    { [title |-> <<"u">>, text |-> <<"y">>, tags |-> Tags(<< <<"b">> >>),
       user |-> 2, isPublic |-> TRUE, shareId |-> "s2", createdAt |-> 0],
      [title |-> <<"t">>, text |-> <<"x">>, tags |-> NoTags,
       user |-> 1, isPublic |-> FALSE, shareId |-> NoShare, createdAt |-> 0] }

\* logged-in clients creating, sharing and updating, requests overlapping
NextFrame ==
    \/ \E h \in Sessions(users, now), b \in Bodies : PostQuery(h, b)
    \/ \E h \in Sessions(users, now), q \in Targets, b \in FrameBodies : PutQuery(h, q, b)
    \/ \E s \in Slots, h \in Sessions(users, now), q \in Targets : ShareBegin(s, h, q)
    \/ \E s \in Slots, sid \in ShareIds : ShareWrite(s, sid)

SpecFrame == Init /\ [][NextFrame]_vars

\* C18: a successful update leaves the owner, createdAt, isPublic and share
\* token of its query as they were, whatever the body names, keeps the set
\* of ids, and leaves every other query and everything else alone.
C18_UpdateFrame ==
    [][(resp'.op = "update" /\ resp'.status = 200) =>
         /\ resp'.arg.qid \in DOMAIN queries
         /\ DOMAIN queries' = DOMAIN queries
         /\ queries'[resp'.arg.qid].user = queries[resp'.arg.qid].user
         /\ queries'[resp'.arg.qid].createdAt = queries[resp'.arg.qid].createdAt
         /\ queries'[resp'.arg.qid].isPublic = queries[resp'.arg.qid].isPublic
         /\ queries'[resp'.arg.qid].shareId = queries[resp'.arg.qid].shareId
         /\ \A p \in DOMAIN queries \ {resp'.arg.qid} :
                Record(queries', query_tags', p) = Record(queries, query_tags, p)
         /\ UNCHANGED <<users, nextId, reqs>>]_vars

C18_Witness ==
    /\ resp.op = "update"
    /\ resp.status = 200
    /\ resp.arg.body.isPublic # queries[resp.arg.qid].isPublic
    /\ queries[resp.arg.qid].shareId # NoShare
    /\ queries[resp.arg.qid].title = resp.arg.body.title
    /\ \E p \in DOMAIN queries : p # resp.arg.qid

\* C19: a create whose title or text is empty, or empty once trimmed, is
\* answered 400 and stores no query and no tags.
C19_Blank(body) == ~Truthy(trim(body.title)) \/ ~Truthy(trim(body.text))

C19_CreateValidated ==
    [][(resp'.op = "create" /\ resp'.status # 401 /\ C19_Blank(resp'.arg.body)) =>
         /\ resp'.status = 400
         /\ UNCHANGED <<queries, query_tags>>]_vars

\* C20: a signup whose username or password is empty is answered 400 and
\* adds no user record.
C20_SignupValidated ==
    [][(/\ resp'.op = "signup"
        /\ ~Truthy(resp'.arg.username) \/ ~Truthy(resp'.arg.password)) =>
         /\ resp'.status = 400
         /\ users' = users]_vars

\* ------------------------------------------------------------- tag index
\* logged-in clients creating, updating and listing queries and tags
NextTagList ==
    \/ NextTags
    \/ \E h \in Sessions(users, now) : GetTags(h)

SpecTagList == Init /\ [][NextTagList]_vars

\* the tags on the stored queries of user who
C21_TagsOf(who) ==
    IF variant = "d1"
    THEN {r[2] : r \in {x \in query_tags :
                          x[1] \in DOMAIN queries /\ queries[x[1]].user = who}}
    ELSE UNION {Elements(queries[q].tags) :
                  q \in {p \in DOMAIN queries : queries[p].user = who}}

\* C21: the tag index of a caller lists exactly the tags on that caller's
\* stored queries, each once, in ascending order.
C21_TagIndex ==
    (resp.op = "tags" /\ resp.status = 200) =>
        /\ Elements(resp.data) = C21_TagsOf(resp.arg.who)
        /\ \A i, j \in 1..Len(resp.data) : i < j => StrLess(resp.data[i], resp.data[j])

C21_Witness ==
    /\ resp.op = "tags"
    /\ resp.status = 200
    /\ Len(resp.data) = 2
    /\ \E u \in 1..Len(users) :
         /\ u # resp.arg.who
         /\ C21_TagsOf(u) # {}
         /\ C21_TagsOf(u) \cap C21_TagsOf(resp.arg.who) = {}

\* ---------------------------------------------------------- store faults
\* err.message of the error a store call throws when the store is down
FaultTexts == {"connect ECONNREFUSED", "MongoServerSelectionError: topology closed"}

HonoDefault == "Internal Server Error"

Routes(v) ==
    {"signup", "login", "public", "list", "tags", "create", "update", "delete", "share"}
    \cup (IF v = "mongo" THEN {"health"} ELSE {})

\* the catch block of each Express route
ExpressFault(route) ==
    CASE route = "signup" -> "An error occurred during signup."
      [] route = "login"  -> "An error occurred during login."
      [] route = "public" -> "Error fetching shared query."
      [] route = "list"   -> "Error fetching queries."
      [] route = "tags"   -> "Error fetching tags."
      [] route = "create" -> "Error creating query."
      [] route = "delete" -> "Error deleting query."
      [] route = "update" -> "Error updating query."
      [] OTHER            -> "Error sharing query."

\* what the client is told when the route's store call throws err: the
\* route's catch block, or the framework's handler where the route has none
faultAnswer(v, route, err) ==
    IF v = "express" THEN [status |-> 500, msg |-> ExpressFault(route)]
    ELSE IF route = "health" THEN [status |-> 500, msg |-> err]
    ELSE IF v = "d1" /\ route = "signup" THEN [status |-> 500, msg |-> "Error during signup."]
    ELSE [status |-> 500, msg |-> HonoDefault]

Thrown(err) == [error |-> err]

\* a request whose first store call throws
StoreFault(route, err) ==
    /\ route \in Routes(variant)
    /\ \E a \in {faultAnswer(variant, route, err)} :
           resp' = Reply(route, a.status, a.msg, Thrown(err), <<>>)
    /\ UNCHANGED <<conn, page, variant, users, queries, query_tags, nextId, now, reqs>>

\* logged-in clients creating and deleting queries while the store may fail
NextFault ==
    \/ \E h \in Sessions(users, now), b \in Bodies : PostQuery(h, b)
    \/ \E h \in Sessions(users, now), q \in Targets : DeleteQuery(h, q)
    \/ \E r \in Routes(variant), e \in FaultTexts : StoreFault(r, e)

SpecFault == Init /\ [][NextFault]_vars

\* C22: a request during which the store fails is answered 500 with a body
\* that holds no text of the error thrown.
C22_OpaqueFault ==
    "error" \in DOMAIN resp.arg =>
        /\ resp.status = 500
        /\ resp.msg \notin FaultTexts

\* ------------------------------------------------- frontend: save button
saveClick_Single(isConfirming, filled) ==
    [put |-> filled, confirming |-> FALSE, timer |-> FALSE]

\* the click handler of saveQueryButton: whether updateQuery() is called,
\* the new data-confirming, and whether a timeout is scheduled
saveClick(isConfirming, filled) ==
    IF isConfirming
    THEN [put |-> filled, confirming |-> FALSE, timer |-> FALSE]
    ELSE [put |-> FALSE, confirming |-> TRUE, timer |-> TRUE]

\* the callback handed to setTimeout
timeoutCallback(isConfirming) == IF isConfirming THEN FALSE ELSE isConfirming

Handled(ev, put, reset) == [ev |-> ev, put |-> put, reset |-> reset]

\* a click on an edit button of the list opens the dialog
EditClick ==
    /\ ~page.open
    /\ page' = [page EXCEPT !.open = TRUE, !.last = Handled("edit", FALSE, FALSE)]
    /\ UNCHANGED <<conn, variant, users, queries, query_tags, nextId, now, reqs, resp>>

\* a click on the save button; filled: id, title and text are all non-empty
SaveClick(filled) ==
    /\ page.open
    /\ \E r \in {saveClick(page.confirming, filled)} :
           page' = [page EXCEPT
                       !.confirming = r.confirming,
                       !.timers = IF r.timer THEN @ \cup {page.clock + ConfirmDelay} ELSE @,
                       !.armed = TRUE,
                       !.armedAt = IF r.confirming THEN page.clock ELSE @,
                       !.last = Handled("click", r.put, FALSE)]
    /\ UNCHANGED <<conn, variant, users, queries, query_tags, nextId, now, reqs, resp>>

\* a pending timeout comes due and its callback runs
Timeout(due) ==
    /\ due \in page.timers
    /\ due <= page.clock
    /\ page' = [page EXCEPT
                   !.confirming = timeoutCallback(@),
                   !.timers = @ \ {due},
                   !.armed = IF page.confirming THEN FALSE ELSE @,
                   !.last = Handled("timeout", FALSE, page.confirming)]
    /\ UNCHANGED <<conn, variant, users, queries, query_tags, nextId, now, reqs, resp>>

\* hidden.bs.modal: the dialog was closed, by the user or by updateQuery()
ModalHidden ==
    /\ page.open
    /\ page' = [page EXCEPT
                   !.open = FALSE,
                   !.confirming = FALSE,
                   !.armed = FALSE,
                   !.last = Handled("hidden", FALSE, TRUE)]
    /\ UNCHANGED <<conn, variant, users, queries, query_tags, nextId, now, reqs, resp>>

\* a second passes on the page
PageTick ==
    /\ page.clock < MaxClock
    /\ page' = [page EXCEPT !.clock = @ + 1, !.last = Handled("tick", FALSE, FALSE)]
    /\ UNCHANGED <<conn, variant, users, queries, query_tags, nextId, now, reqs, resp>>

NextPage ==
    \/ EditClick
    \/ \E filled \in BOOLEAN : SaveClick(filled)
    \/ \E due \in 0..(MaxClock + ConfirmDelay) : Timeout(due)
    \/ ModalHidden
    \/ PageTick

SpecPage == Init /\ [][NextPage]_vars

\* C23: the page sends an update only on a click on the save button that
\* follows an earlier click in the same open dialog with no reset by the
\* timeout or by the dialog being hidden in between, and the button is then
\* in the confirming state.
C23_DoubleConfirm ==
    [][page'.last.put =>
          /\ page'.last.ev = "click"
          /\ page.open
          /\ page.armed
          /\ page.confirming]_vars

C23_Witness == page.last.put

\* C29: the button leaves the confirming state only by a click, by the
\* dialog being hidden, or by a timeout at least ConfirmDelay seconds after
\* the click that put it into that state.
C29_ConfirmLasts ==
    [][page.confirming /\ ~page'.confirming =>
          \/ page'.last.ev \in {"click", "hidden"}
          \/ /\ page'.last.ev = "timeout"
             /\ page'.clock >= page.armedAt + ConfirmDelay]_vars

\* the query a create or update step writes
C24_Target ==
    IF resp'.op = "create" THEN nextId ELSE resp'.arg.qid

\* C24: a create or update, answered with success or with an error, leaves
\* the store either as it was or holding the query with the title and text
\* sent and the whole normalized tag set.
C24_AllOrNothing ==
    [][resp'.op \in {"create", "update"} =>
          \/ UNCHANGED <<queries, query_tags>>
          \/ \E q \in {C24_Target} :
                 /\ q \in DOMAIN queries'
                 /\ queries'[q].title = resp'.arg.body.title
                 /\ queries'[q].text = resp'.arg.body.text
                 /\ C16_Stored(q) = Elements(processedTags(resp'.arg.body.tags))]_vars

\* ------------------------------------------------------ getDb, step by step
\* client.topology?.isConnected()
isConnected(cn, c) == cn.state[c] = "connected"

Did(ev, s, c, st, old) == [ev |-> ev, slot |-> s, client |-> c, state |-> st, old |-> old]

\* client = new MongoClient(...); await client.connect()  -- up to the await
construct(cn, s, ev) ==
    LET id == cn.made + 1 IN
        [cn EXCEPT !.client = id, !.state[id] = "connecting", !.made = id,
                   !.pc[s] = "connecting", !.mine[s] = id,
                   !.last = Did(ev, s, id, "connecting", cn.client)]

\* a request calls getDb: up to its first await, or to its return
GetDbCall(s) ==
    /\ conn.pc[s] = "idle"
    /\ \E c \in {conn.client} :
           IF conn.kind = "reset" /\ c # 0 /\ ~isConnected(conn, c)
           THEN conn' = [conn EXCEPT !.state[c] = "closed", !.pc[s] = "closing",
                                     !.mine[s] = c,
                                     !.last = Did("close", s, c, conn.state[c], 0)]
           ELSE IF c = 0
           THEN /\ conn.made < MaxClients
                /\ conn' = construct(conn, s, "construct")
           ELSE conn' = [conn EXCEPT !.last = Did("handle", s, c, conn.state[c], 0)]
    /\ UNCHANGED <<page, variant, users, queries, query_tags, nextId, now, reqs, resp>>

\* await client.close() returns: client = null, then the !client branch
CloseDone(s) ==
    /\ conn.pc[s] = "closing"
    /\ conn.made < MaxClients
    /\ conn' = construct(conn, s, "replace")
    /\ UNCHANGED <<page, variant, users, queries, query_tags, nextId, now, reqs, resp>>

\* await client.connect() settles: return client.db(), or the error is thrown
ConnectDone(s, ok) ==
    /\ conn.pc[s] = "connecting"
    /\ \E m \in {conn.mine[s]} :
       \E st \in {IF ok THEN "connected"
                  ELSE IF conn.state[m] = "closed" THEN "closed" ELSE "failed"} :
       \E cn \in {[conn EXCEPT !.state[m] = st, !.pc[s] = "idle", !.mine[s] = 0]} :
           conn' = [cn EXCEPT !.last = IF ok
                                       THEN Did("handle", s, cn.client, cn.state[cn.client], 0)
                                       ELSE Did("throw", s, m, st, 0)]
    /\ UNCHANGED <<page, variant, users, queries, query_tags, nextId, now, reqs, resp>>

\* the connection of a connected client is lost
TopologyClosed(c) ==
    /\ conn.state[c] = "connected"
    /\ conn' = [conn EXCEPT !.state[c] = "lost", !.last = Did("lost", 0, c, "lost", 0)]
    /\ UNCHANGED <<page, variant, users, queries, query_tags, nextId, now, reqs, resp>>

InitDb ==
    /\ variant = "mongo"
    /\ users = <<Alice, Bob>>
    /\ queries = NoQueries
    /\ query_tags = {}
    /\ nextId = 1
    /\ now = TokenTTL
    /\ reqs = [s \in Slots |-> Idle]
    /\ resp = NoResp
    /\ page = PageLoaded
    /\ conn \in {NoClient("plain"), NoClient("reset")}

NextDb ==
    \/ \E s \in Slots : GetDbCall(s)
    \/ \E s \in Slots : CloseDone(s)
    \/ \E s \in Slots, ok \in BOOLEAN : ConnectDone(s, ok)
    \/ \E c \in Clients : TopologyClosed(c)

SpecDb == InitDb /\ [][NextDb]_vars

\* C25: a MongoClient is constructed only when none constructed before is
\* connecting or connected, and a client whose connect() is in progress is
\* neither closed nor replaced as the module's client.
C25_OneClient ==
    [][/\ conn'.made > conn.made =>
              \A c \in Clients : conn.state[c] \notin {"connecting", "connected"}
       /\ \A c \in Clients :
              conn.state[c] = "connecting" =>
                  /\ conn'.state[c] # "closed"
                  /\ conn.client = c => conn'.client = c]_vars

\* C26: every handle getDb returns is on a client whose connect() has
\* completed successfully.
C26_ConnectedHandle ==
    conn.last.ev = "handle" => conn.last.state = "connected"

\* ------------------------------------------------- one share, many deletes
\* logged-in clients creating and deleting queries while at most one share
\* request is in progress: between its look-up and its write no other
\* request changes any query's isPublic or shareId
NextShareOne ==
    \/ \E h \in Sessions(users, now), b \in Bodies : PostQuery(h, b)
    \/ \E h \in Sessions(users, now), q \in Targets : DeleteQuery(h, q)
    \/ \E h \in Sessions(users, now), q \in Targets : ShareBegin(1, h, q)
    \/ \E sid \in ShareIds : ShareWrite(1, sid)

SpecShareOne == Init /\ [][NextShareOne]_vars

C27_Held(qs, qid, sid) ==
    /\ qid \in DOMAIN qs
    /\ qs[qid].isPublic
    /\ qs[qid].shareId = sid

\* C27: when a share answers 200 with shareId s, the store holds the query
\* public with token s, just before or just after the step that answers;
\* with a single share in progress these are the only states of the request
\* in which it can.
C27_SharedWasStored ==
    [][resp'.op = "share" /\ resp'.status = 200 =>
          \/ C27_Held(queries, resp'.arg.qid, resp'.data)
          \/ C27_Held(queries', resp'.arg.qid, resp'.data)]_vars

\* the tags query q carries in store (qs, rows)
C28_Carried(qs, rows, q) ==
    IF variant = "d1" THEN {r[2] : r \in RowsOf(rows, q)} ELSE Elements(qs[q].tags)

\* the tags that, of all the owner's queries, only q carries
C28_OnlyOf(qs, rows, q) ==
    C28_Carried(qs, rows, q)
        \ UNION {C28_Carried(qs, rows, p) : p \in OwnedIds(qs, qs[q].user) \ {q}}

\* C28: once the owner's delete has answered 200 the query is gone from the
\* store with its tag rows, the owner's list does not hold it, the public
\* route answers 404 for the token it had, the tag index lists no tag that
\* only it carried, and no later step brings its id back.
C28_Unreachable ==
    [][/\ \A p \in DOMAIN queries' : p \in DOMAIN queries \/ p = nextId
       /\ (resp'.op = "delete" /\ resp'.status = 200) =>
              \E q \in {resp'.arg.qid} :
                  /\ q \notin DOMAIN queries'
                  /\ RowsOf(query_tags', q) = {}
                  /\ \A l \in listQueries(variant, queries', query_tags', resp'.arg.who) :
                         \A i \in 1..Len(l) : l[i].id # q
                  /\ queries[q].shareId # NoShare =>
                         \A o \in publicQuery(variant, queries', query_tags', queries[q].shareId) :
                             o.status = 404
                  /\ Elements(listTags(variant, queries', query_tags', resp'.arg.who))
                         \cap C28_OnlyOf(queries, query_tags, q) = {}]_vars


====
